---- MODULE Spec2Model ----
(***************************************************************************)
(* CheckHTTP (check-http/check-http.go): one run of the HTTP check.        *)
(*                                                                         *)
(* Run validates the configuration, prepares a client, issues one GET and  *)
(* evaluates the response.  Each function Run calls is one step of the     *)
(* state machine; the value Run returns (a *plugin.Exit) is the verdict.   *)
(*                                                                         *)
(* Spec is that program, as check-http/check-http.go has it.               *)
(*                                                                         *)
(* TestVerifyBody exercises a later CheckHTTP with two more fields         *)
(* (pattern, missingPattern) and a method verifyBody whose code is not     *)
(* part of the sources.  SpecPatterns is that program: the same run with   *)
(* the pre-flight check of the patterns and the body verification added,   *)
(* both taken from the specification (sections 3, 4.2, 5 and 7).           *)
(***************************************************************************)
EXTENDS Integers, Sequences, FiniteSets, TLC

VARIABLES
    c,          \* the CheckHTTP struct: the configuration of the run
    pc,         \* position of Run: "start", "validated", "prepared", "requested", "done"
    client,     \* the *http.Client built by prepareClient, or Nil
    requests,   \* number of client.Get calls issued so far
    getErr,     \* the error client.Get returned, or Nil
    resp,       \* the *http.Response client.Get returned, or Nil
    bodyState,  \* resp.Body: "none" (no response), "open", "closed"
    readFailed, \* the read of resp.Body failed (only verifyBody reads it)
    verdicts,   \* the *plugin.Exit values the run has reported, in order
    stages      \* the functions Run has called so far, in order

vars == <<c, pc, client, requests, getErr, resp, bodyState, readFailed, verdicts, stages>>

Nil == [nil |-> TRUE]

----------------------------------------------------------------------------
(* Bounds and input domains *)

\* longest response body (in bytes) the modelled server sends
MaxBody == 2

\* the bytes bodies and patterns are made of
Alphabet == {"a", "b"}

RECURSIVE SeqsUpTo(_)
SeqsUpTo(n) ==
    IF n = 0 THEN {<<>>}
    ELSE LET shorter == SeqsUpTo(n - 1)
         IN  shorter \cup {Append(s, ch) : s \in {t \in shorter : Len(t) = n - 1}, ch \in Alphabet}

Bodies == SeqsUpTo(MaxBody)

\* values of --query / --negquery; <<>> is the empty string (not configured)
Patterns == {<<>>, <<"a">>, <<"a", "b">>}

\* status codes a server may answer with: the borders of the 2xx and 3xx
\* ranges of handleResponse, the gap between them and codes on either side
StatusCodes == {99, 100, 199, 200, 204, 226, 227, 299, 300, 301, 302, 306, 308, 309, 400, 404, 500}

\* values of --response-code; 0 is the zero value of an unset field
ResponseCodes == {0, 200, 204, 301, 302, 400, 404}

\* values of --timeout
Timeouts == {0, 1, 15}

\* values of --url
URLs == {"", "http://a"}

\* transport failures of client.Get: a net.Error that timed out, a net.Error
\* that did not, and an error that is no net.Error
GetErrors ==
    {[isNetError |-> TRUE,  timeout |-> TRUE,  text |-> "Get http://a: net/http: request canceled (Client.Timeout exceeded while awaiting headers)"],
     [isNetError |-> TRUE,  timeout |-> FALSE, text |-> "Get http://a: dial tcp: connection refused"],
     [isNetError |-> FALSE, timeout |-> FALSE, text |-> "Get http://a: EOF"]}

\* what the server sends back: a status code and a body
Responses == [StatusCode : StatusCodes, Body : Bodies]

----------------------------------------------------------------------------
(* plugin.Exit and the status levels *)

OK == "OK"
Warning == "WARNING"
Critical == "CRITICAL"
Unknown == "UNKNOWN"

Exit(msg, status) == [Msg |-> msg, Status |-> status]

StatusOK == 200
StatusIMUsed == 226
StatusMultipleChoices == 300
StatusPermanentRedirect == 308

\* http.StatusText: the reason phrase of every code net/http names, and ""
\* for a code it does not name (306, 227, 99, 0, ...)
StatusText(code) ==
    CASE code = 100 -> "Continue"
      [] code = 101 -> "Switching Protocols"
      [] code = 102 -> "Processing"
      [] code = 103 -> "Early Hints"
      [] code = 200 -> "OK"
      [] code = 201 -> "Created"
      [] code = 202 -> "Accepted"
      [] code = 203 -> "Non-Authoritative Information"
      [] code = 204 -> "No Content"
      [] code = 205 -> "Reset Content"
      [] code = 206 -> "Partial Content"
      [] code = 207 -> "Multi-Status"
      [] code = 208 -> "Already Reported"
      [] code = 226 -> "IM Used"
      [] code = 300 -> "Multiple Choices"
      [] code = 301 -> "Moved Permanently"
      [] code = 302 -> "Found"
      [] code = 303 -> "See Other"
      [] code = 304 -> "Not Modified"
      [] code = 305 -> "Use Proxy"
      [] code = 307 -> "Temporary Redirect"
      [] code = 308 -> "Permanent Redirect"
      [] code = 400 -> "Bad Request"
      [] code = 401 -> "Unauthorized"
      [] code = 402 -> "Payment Required"
      [] code = 403 -> "Forbidden"
      [] code = 404 -> "Not Found"
      [] code = 405 -> "Method Not Allowed"
      [] code = 406 -> "Not Acceptable"
      [] code = 407 -> "Proxy Authentication Required"
      [] code = 408 -> "Request Timeout"
      [] code = 409 -> "Conflict"
      [] code = 410 -> "Gone"
      [] code = 411 -> "Length Required"
      [] code = 412 -> "Precondition Failed"
      [] code = 413 -> "Request Entity Too Large"
      [] code = 414 -> "Request URI Too Long"
      [] code = 415 -> "Unsupported Media Type"
      [] code = 416 -> "Requested Range Not Satisfiable"
      [] code = 417 -> "Expectation Failed"
      [] code = 418 -> "I'm a teapot"
      [] code = 421 -> "Misdirected Request"
      [] code = 422 -> "Unprocessable Entity"
      [] code = 423 -> "Locked"
      [] code = 424 -> "Failed Dependency"
      [] code = 425 -> "Too Early"
      [] code = 426 -> "Upgrade Required"
      [] code = 428 -> "Precondition Required"
      [] code = 429 -> "Too Many Requests"
      [] code = 431 -> "Request Header Fields Too Large"
      [] code = 451 -> "Unavailable For Legal Reasons"
      [] code = 500 -> "Internal Server Error"
      [] code = 501 -> "Not Implemented"
      [] code = 502 -> "Bad Gateway"
      [] code = 503 -> "Service Unavailable"
      [] code = 504 -> "Gateway Timeout"
      [] code = 505 -> "HTTP Version Not Supported"
      [] code = 506 -> "Variant Also Negotiates"
      [] code = 507 -> "Insufficient Storage"
      [] code = 508 -> "Loop Detected"
      [] code = 510 -> "Not Extended"
      [] code = 511 -> "Network Authentication Required"
      [] OTHER -> ""

\* fmt.Sprintf("%d %s", code, http.StatusText(code))
statusLine(code) == ToString(code) \o " " \o StatusText(code)

----------------------------------------------------------------------------
(* The functions of CheckHTTP *)

\* the url check at the head of Run: Nil when acceptable
validateURLMutSkip(cfg) == Nil

validateURL(cfg) ==
    IF cfg.url = "" THEN Exit("no URL specified", Unknown) ELSE Nil

\* mutant: the explicit expectation is consulted after the range classification
handleResponseMutRangeFirst(cfg, r) ==
    LET status == statusLine(r.StatusCode)
    IN  IF r.StatusCode >= StatusOK /\ r.StatusCode <= StatusIMUsed
        THEN Exit(status, OK)
        ELSE IF r.StatusCode >= StatusMultipleChoices /\ r.StatusCode <= StatusPermanentRedirect
        THEN (IF cfg.redirectOK THEN Exit(status, OK)
              ELSE Exit(status \o ": unexpected redirection", Warning))
        ELSE IF cfg.responseCode # StatusOK /\ cfg.responseCode # 0 /\ cfg.responseCode = r.StatusCode
        THEN Exit(status, OK)
        ELSE Exit(status, Critical)

\* mutant: an explicit 200 is treated like any other explicit expectation
handleResponseMutStrict200(cfg, r) ==
    LET status == statusLine(r.StatusCode)
    IN  IF cfg.responseCode # 0
        THEN (IF cfg.responseCode = r.StatusCode
              THEN Exit(status, OK)
              ELSE Exit("expected HTTP status " \o statusLine(cfg.responseCode)
                        \o ", got " \o statusLine(r.StatusCode), Critical))
        ELSE IF r.StatusCode >= StatusOK /\ r.StatusCode <= StatusIMUsed
        THEN Exit(status, OK)
        ELSE IF r.StatusCode >= StatusMultipleChoices /\ r.StatusCode <= StatusPermanentRedirect
        THEN (IF cfg.redirectOK THEN Exit(status, OK)
              ELSE Exit(status \o ": unexpected redirection", Warning))
        ELSE Exit(status, Critical)

\* mutant: the redirect flag is ignored
handleResponseMutNoRedirectFlag(cfg, r) ==
    LET status == statusLine(r.StatusCode)
    IN  IF cfg.responseCode # StatusOK /\ cfg.responseCode # 0
        THEN (IF cfg.responseCode = r.StatusCode
              THEN Exit(status, OK)
              ELSE Exit("expected HTTP status " \o statusLine(cfg.responseCode)
                        \o ", got " \o statusLine(r.StatusCode), Critical))
        ELSE IF r.StatusCode >= StatusOK /\ r.StatusCode <= StatusIMUsed
        THEN Exit(status, OK)
        ELSE IF r.StatusCode >= StatusMultipleChoices /\ r.StatusCode <= StatusPermanentRedirect
        THEN Exit(status \o ": unexpected redirection", Warning)
        ELSE Exit(status, Critical)

\* mutant: the success range is the whole of 200..299
handleResponseMutWide2xx(cfg, r) ==
    LET status == statusLine(r.StatusCode)
    IN  IF cfg.responseCode # StatusOK /\ cfg.responseCode # 0
        THEN (IF cfg.responseCode = r.StatusCode
              THEN Exit(status, OK)
              ELSE Exit("expected HTTP status " \o statusLine(cfg.responseCode)
                        \o ", got " \o statusLine(r.StatusCode), Critical))
        ELSE IF r.StatusCode >= StatusOK /\ r.StatusCode < StatusMultipleChoices
        THEN Exit(status, OK)
        ELSE IF r.StatusCode >= StatusMultipleChoices /\ r.StatusCode <= StatusPermanentRedirect
        THEN (IF cfg.redirectOK THEN Exit(status, OK)
              ELSE Exit(status \o ": unexpected redirection", Warning))
        ELSE Exit(status, Critical)

handleResponse(cfg, r) ==
    LET status == statusLine(r.StatusCode)
    IN  IF cfg.responseCode # StatusOK /\ cfg.responseCode # 0
        THEN (IF cfg.responseCode = r.StatusCode
              THEN Exit(status, OK)
              ELSE Exit("expected HTTP status " \o statusLine(cfg.responseCode)
                        \o ", got " \o statusLine(r.StatusCode), Critical))
        ELSE IF r.StatusCode >= StatusOK /\ r.StatusCode <= StatusIMUsed
        THEN Exit(status, OK)
        ELSE IF r.StatusCode >= StatusMultipleChoices /\ r.StatusCode <= StatusPermanentRedirect
        THEN (IF cfg.redirectOK THEN Exit(status, OK)
              ELSE Exit(status \o ": unexpected redirection", Warning))
        ELSE Exit(status, Critical)

\* the error initiateRequest returns for a failed client.Get
\* mutant: every failure is reported as a plain request error
requestErrorMutNoTimeout(cfg, err) ==
    Exit("Request error: " \o err.text, Critical)

requestError(cfg, err) ==
    IF err.isNetError /\ err.timeout
    THEN Exit("Request exceeded timeout of " \o ToString(cfg.timeout) \o " seconds", Critical)
    ELSE Exit("Request error: " \o err.text, Critical)

\* the client: the configured timeout, and redirects are not followed
prepareClient(cfg) ==
    [Timeout |-> cfg.timeout, CheckRedirect |-> "ErrUseLastResponse"]

----------------------------------------------------------------------------
(* The run *)

Configs ==
    [url : URLs, redirectOK : BOOLEAN, responseCode : ResponseCodes, timeout : Timeouts]

Init ==
    /\ c \in Configs
    /\ pc = "start"
    /\ client = Nil
    /\ requests = 0
    /\ getErr = Nil
    /\ resp = Nil
    /\ bodyState = "none"
    /\ readFailed = FALSE
    /\ verdicts = <<>>
    /\ stages = <<>>

\* Run, up to the call of prepareClient: the url is validated
RunValidate ==
    /\ pc = "start"
    /\ stages' = Append(stages, "validate")
    /\ IF validateURL(c) # Nil
       THEN /\ verdicts' = Append(verdicts, validateURL(c))
            /\ pc' = "done"
       ELSE /\ verdicts' = verdicts
            /\ pc' = "validated"
    /\ UNCHANGED <<c, client, requests, getErr, resp, bodyState, readFailed>>

\* client := c.prepareClient()
RunPrepareClient ==
    /\ pc = "validated"
    /\ client' = prepareClient(c)
    /\ stages' = Append(stages, "prepareClient")
    /\ pc' = "prepared"
    /\ UNCHANGED <<c, requests, getErr, resp, bodyState, readFailed, verdicts>>

\* resp, err := c.initiateRequest(client), the GET fails; Run returns err
RunInitiateRequestFails ==
    /\ pc = "prepared"
    /\ \E err \in GetErrors :
        /\ getErr' = err
        /\ verdicts' = Append(verdicts, requestError(c, err))
    /\ requests' = requests + 1
    /\ stages' = Append(stages, "initiateRequest")
    /\ pc' = "done"
    /\ UNCHANGED <<c, client, resp, bodyState, readFailed>>

\* resp, err := c.initiateRequest(client), the GET succeeds
RunInitiateRequestSucceeds ==
    /\ pc = "prepared"
    /\ \E r \in Responses :
        /\ resp' = r
        /\ bodyState' = "open"
    /\ requests' = requests + 1
    /\ stages' = Append(stages, "initiateRequest")
    /\ pc' = "requested"
    /\ UNCHANGED <<c, client, getErr, readFailed, verdicts>>

\* mutant: the exit of handleResponse does not end the run, which falls
\* through and reports a second time
RunHandleResponseMutFallsThrough ==
    /\ pc = "requested"
    /\ verdicts' = Append(verdicts, handleResponse(c, resp))
    /\ stages' = Append(stages, "handleResponse")
    /\ pc' = IF verdicts = <<>> THEN "requested" ELSE "done"
    /\ UNCHANGED <<c, client, requests, getErr, resp, bodyState, readFailed>>

\* return c.handleResponse(resp); the body is neither read nor closed
RunHandleResponse ==
    /\ pc = "requested"
    /\ verdicts' = Append(verdicts, handleResponse(c, resp))
    /\ stages' = Append(stages, "handleResponse")
    /\ pc' = "done"
    /\ UNCHANGED <<c, client, requests, getErr, resp, bodyState, readFailed>>

Next ==
    \/ RunValidate
    \/ RunPrepareClient
    \/ RunInitiateRequestFails
    \/ RunInitiateRequestSucceeds
    \/ RunHandleResponse

Spec == Init /\ [][Next]_vars

----------------------------------------------------------------------------
(* The run with patterns: CheckHTTP as TestVerifyBody sets it up, with the *)
(* pre-flight check and the body verification of the specification         *)

\* a pattern as the string it is printed as
RECURSIVE Str(_)
Str(s) == IF s = <<>> THEN "" ELSE Head(s) \o Str(Tail(s))

\* exact, case-sensitive substring containment
Contains(s, sub) ==
    \E i \in 0..(Len(s) - Len(sub)) : SubSeq(s, i + 1, i + Len(sub)) = sub

\* the pattern in force: the required one if set, else the forbidden one
activePattern(cfg) ==
    IF cfg.pattern # <<>> THEN cfg.pattern ELSE cfg.missingPattern

\* whether verifyBody reads the body stream
readsBody(cfg) == cfg.pattern # <<>> \/ cfg.missingPattern # <<>>

\* mutant: a status that met the expectation is OK, the body is not searched
verifyBodyMutNoSearch(cfg, r, readFails) ==
    Exit(statusLine(r.StatusCode), OK)

\* verifyBody; readFails: the read of the body stream ends in an error
verifyBody(cfg, r, readFails) ==
    IF ~readsBody(cfg)
    THEN Exit(statusLine(r.StatusCode), OK)
    ELSE IF readFails
    THEN Exit("could not read the response body", Critical)
    ELSE LET p     == activePattern(cfg)
             n     == ToString(Len(r.Body))
             found == Contains(r.Body, p)
             hit   == statusLine(r.StatusCode) \o " found /" \o Str(p) \o "/ in " \o n \o " bytes"
             miss  == "did not find /" \o Str(p) \o "/ in " \o n \o " bytes"
         IN  IF cfg.pattern # <<>>
             THEN (IF found THEN Exit(hit, OK) ELSE Exit(miss, Critical))
             ELSE (IF found THEN Exit(hit, Critical) ELSE Exit(miss, OK))

\* pre-flight check of the two pattern flags: Nil when acceptable
validatePatternsMutSkip(cfg) == Nil

validatePatterns(cfg) ==
    IF cfg.pattern # <<>> /\ cfg.missingPattern # <<>>
    THEN Exit("the required and the forbidden pattern are mutually exclusive", Unknown)
    ELSE Nil

\* the evaluation stage: handleResponse, whose OK exits (the status met the
\* expectation) go on to the body verification
evaluate(cfg, r, readFails) ==
    IF handleResponse(cfg, r).Status = OK
    THEN verifyBody(cfg, r, readFails)
    ELSE handleResponse(cfg, r)

\* whether the evaluation reads, and then releases, the body stream
closesBody(cfg, r) == handleResponse(cfg, r).Status = OK /\ readsBody(cfg)

PatternConfigs ==
    [url : URLs, redirectOK : BOOLEAN, responseCode : ResponseCodes,
     timeout : Timeouts, pattern : Patterns, missingPattern : Patterns]

InitPatterns ==
    /\ c \in PatternConfigs
    /\ pc = "start"
    /\ client = Nil
    /\ requests = 0
    /\ getErr = Nil
    /\ resp = Nil
    /\ bodyState = "none"
    /\ readFailed = FALSE
    /\ verdicts = <<>>
    /\ stages = <<>>

\* Run, up to the call of prepareClient: the url, then the patterns
RunValidatePatterns ==
    /\ pc = "start"
    /\ stages' = Append(stages, "validate")
    /\ LET e == IF validateURL(c) # Nil THEN validateURL(c) ELSE validatePatterns(c)
       IN  IF e # Nil
           THEN /\ verdicts' = Append(verdicts, e)
                /\ pc' = "done"
           ELSE /\ verdicts' = verdicts
                /\ pc' = "validated"
    /\ UNCHANGED <<c, client, requests, getErr, resp, bodyState, readFailed>>

\* return c.handleResponse(resp), with the body verification on its OK exits
RunHandleResponseVerifyBody ==
    /\ pc = "requested"
    /\ \E readFails \in (IF closesBody(c, resp) THEN BOOLEAN ELSE {FALSE}) :
        /\ verdicts' = Append(verdicts, evaluate(c, resp, readFails))
        /\ readFailed' = readFails
    /\ bodyState' = IF closesBody(c, resp) THEN "closed" ELSE bodyState
    /\ stages' = Append(stages, "handleResponse")
    /\ pc' = "done"
    /\ UNCHANGED <<c, client, requests, getErr, resp>>

NextPatterns ==
    \/ RunValidatePatterns
    \/ RunPrepareClient
    \/ RunInitiateRequestFails
    \/ RunInitiateRequestSucceeds
    \/ RunHandleResponseVerifyBody

SpecPatterns == InitPatterns /\ [][NextPatterns]_vars

----------------------------------------------------------------------------
(* Shorthands for the properties *)

Done == pc = "done"
Verdict == verdicts[Len(verdicts)]
Code == resp.StatusCode
NoPattern == c.pattern = <<>> /\ c.missingPattern = <<>>
BothPatterns == c.pattern # <<>> /\ c.missingPattern # <<>>
ExplicitExpectation == c.responseCode # 0 /\ c.responseCode # 200
Evaluated == Done /\ resp # Nil
In2xx(code) == code >= 200 /\ code <= 226
In3xx(code) == code >= 300 /\ code <= 308
Ran(stage) == \E i \in 1..Len(stages) : stages[i] = stage
StageOrder == <<"validate", "prepareClient", "initiateRequest", "handleResponse">>

\* the status code satisfies the configured expectation (section 4.2, steps 1 to 3)
StatusMet ==
    IF ExplicitExpectation
    THEN Code = c.responseCode
    ELSE In2xx(Code) \/ (In3xx(Code) /\ c.redirectOK)

\* the body holds the pattern as a contiguous run of bytes
Holds(body, p) ==
    \E i \in 1..(Len(body) + 1) : \E j \in (i - 1)..Len(body) :
        p = [k \in 1..(j - i + 1) |-> body[i + k - 1]]

----------------------------------------------------------------------------
(* The claims *)

\* C1: with an explicit expectation (responseCode neither 0 nor 200) the
\* verdict of an evaluated response is CRITICAL, with the message naming both
\* status lines, whenever the status code differs from it, whatever
\* redirectOK says and whatever range the code is in; and it is OK with the
\* status line when the code equals it (the program has no pattern).
C1_ExplicitExpectationWins ==
    (Evaluated /\ ExplicitExpectation) =>
        /\ (Code # c.responseCode =>
                /\ Verdict.Status = Critical
                /\ Verdict.Msg = "expected HTTP status " \o statusLine(c.responseCode)
                                 \o ", got " \o statusLine(Code))
        /\ (Code = c.responseCode =>
                Verdict = Exit(statusLine(Code), OK))

\* an expected 301 answered by 302 with redirects accepted is CRITICAL
C1_Witness ==
    /\ Evaluated /\ c.responseCode = 301 /\ Code = 302 /\ c.redirectOK
    /\ Verdict.Status = Critical

\* C2: a status code in 200..226 with responseCode 0 or 200 (no pattern)
\* is OK, for both values of redirectOK.
C2_SuccessRangeOK ==
    (Evaluated /\ In2xx(Code) /\ ~ExplicitExpectation) =>
        Verdict = Exit(statusLine(Code), OK)

\* an explicit 200 answered by 204 is OK
C2_Witness ==
    /\ Evaluated /\ c.responseCode = 200 /\ Code = 204
    /\ Verdict.Status = OK

\* C3: a status code in 300..308 with responseCode 0 or 200 (no pattern)
\* is OK when redirectOK is set and WARNING, with the status line followed
\* by ": unexpected redirection", when it is not; it is never CRITICAL.
C3_RedirectRange ==
    (Evaluated /\ In3xx(Code) /\ ~ExplicitExpectation) =>
        /\ Verdict.Status # Critical
        /\ Verdict = IF c.redirectOK
                     THEN Exit(statusLine(Code), OK)
                     ELSE Exit(statusLine(Code) \o ": unexpected redirection", Warning)

\* both outcomes of the redirect range occur
C3_Witness ==
    /\ Evaluated /\ Code = 308 /\ c.responseCode = 0
    /\ ~c.redirectOK /\ Verdict.Status = Warning

\* C4: with responseCode 0 or 200, a status code outside 200..226 and outside
\* 300..308 is CRITICAL with the status line as message, for both values of
\* redirectOK.
C4_EverythingElseCritical ==
    (Evaluated /\ ~ExplicitExpectation /\ ~In2xx(Code) /\ ~In3xx(Code)) =>
        Verdict = Exit(statusLine(Code), Critical)

\* a code in the gap between the ranges, redirects accepted
C4_Witness ==
    /\ Evaluated /\ Code = 227 /\ c.redirectOK /\ c.responseCode = 200
    /\ Verdict.Status = Critical

\* C5: with an empty url no client is prepared and no GET is issued at any
\* point of the run, and the run ends with the single verdict UNKNOWN.
C5_EmptyURLNoRequest ==
    c.url = "" =>
        /\ requests = 0
        /\ client = Nil /\ resp = Nil /\ getErr = Nil
        /\ ~Ran("prepareClient") /\ ~Ran("initiateRequest")
        /\ pc \in {"start", "done"}
        /\ Done => (Len(verdicts) = 1 /\ Verdict.Status = Unknown)

C5_Witness ==
    c.url = "" /\ Done /\ Verdict = Exit("no URL specified", Unknown)

\* C6: with both patterns set no GET is issued at any point of the run, and
\* the run ends with the single verdict UNKNOWN.
C6_BothPatternsNoRequest ==
    BothPatterns =>
        /\ requests = 0
        /\ resp = Nil /\ getErr = Nil
        /\ ~Ran("initiateRequest")
        /\ pc \in {"start", "done"}
        /\ Done => (Len(verdicts) = 1 /\ Verdict.Status = Unknown)

C6_Witness ==
    c.url # "" /\ BothPatterns /\ Done /\ Verdict.Status = Unknown

\* C7 (as amended): when the status code met the expectation and exactly
\* one pattern is configured, a body that was read decides the verdict by
\* containment: with a required pattern OK if the body holds it and CRITICAL
\* if not; with a forbidden pattern CRITICAL if the body holds it and OK if
\* not. When the read of the body fails the verdict is CRITICAL in either
\* mode, whatever the body holds.
C7_PatternDecidesWhenRead ==
    (Evaluated /\ StatusMet /\ ~NoPattern) =>
        IF readFailed
        THEN Verdict.Status = Critical
        ELSE /\ Verdict.Status \in {OK, Critical}
             /\ (c.pattern # <<>> =>
                    (Verdict.Status = OK <=> Holds(resp.Body, c.pattern)))
             /\ (c.missingPattern # <<>> =>
                    (Verdict.Status = Critical <=> Holds(resp.Body, c.missingPattern)))

\* C7 (as claimed): the verdict follows containment whenever the status code
\* met the expectation and exactly one pattern is configured; a failed read
\* of the body refutes it.
C7_PatternDecides ==
    (Evaluated /\ StatusMet /\ ~NoPattern) =>
        /\ Verdict.Status \in {OK, Critical}
        /\ (c.pattern # <<>> =>
                (Verdict.Status = OK <=> Holds(resp.Body, c.pattern)))
        /\ (c.missingPattern # <<>> =>
                (Verdict.Status = Critical <=> Holds(resp.Body, c.missingPattern)))

\* a 200 that met the default expectation, read in full, whose body lacks
\* the required pattern: CRITICAL by the body alone
C7_Witness ==
    /\ Evaluated /\ c.responseCode = 0 /\ Code = 200 /\ StatusMet
    /\ c.pattern = <<"a", "b">> /\ c.missingPattern = <<>>
    /\ resp.Body = <<"b", "a">> /\ ~readFailed
    /\ Verdict = Exit("did not find /ab/ in 2 bytes", Critical)

\* C8: a failed GET ends the run with one CRITICAL verdict, whose message is
\* the timeout message alone for a timeout and "Request error: " and the
\* error text otherwise, and handleResponse is not run; a successful GET
\* reports nothing and hands the response to the evaluation.
C8_RequestFailureTerminal ==
    /\ getErr # Nil =>
        /\ Done /\ resp = Nil /\ ~Ran("handleResponse")
        /\ verdicts = << Exit(IF getErr.isNetError /\ getErr.timeout
                              THEN "Request exceeded timeout of " \o ToString(c.timeout) \o " seconds"
                              ELSE "Request error: " \o getErr.text,
                              Critical) >>
    /\ pc = "requested" => (verdicts = <<>> /\ resp # Nil /\ getErr = Nil)
    /\ Ran("handleResponse") => (resp # Nil /\ getErr = Nil)

C8_Witness ==
    getErr # Nil /\ getErr.timeout /\ Done /\ c.timeout = 1 /\ Len(verdicts) = 1

\* C9: a run reports at most one verdict, it has reported exactly one when
\* it ends, each stage runs at most once and in order, and once a verdict is
\* reported nothing further happens.
C9_SingleVerdict ==
    /\ [](/\ Len(verdicts) <= 1
          /\ Done <=> Len(verdicts) = 1
          /\ Len(stages) <= Len(StageOrder)
          /\ stages = SubSeq(StageOrder, 1, Len(stages)))
    /\ [][Len(verdicts) >= 1 => UNCHANGED vars]_vars

\* an accepted redirect has reported its one OK
C9_Witness ==
    /\ Evaluated /\ Code = 301 /\ c.redirectOK /\ c.responseCode = 0
    /\ verdicts = << Exit(statusLine(301), OK) >>

\* C10: a run that received a response has closed its body when it ends
\* (stated of the run of the sources, which never closes it).
C10_BodyClosedAtEnd ==
    Evaluated => bodyState = "closed"

====
